---- MODULE Spec2Model ----
(***************************************************************************)
(* Model of the skaffold schema tooling:                                   *)
(*   - pkg/skaffold/schema/v1beta9 upgrade (Upgrade, convertSyncRules,     *)
(*     simplify), kept in src/pkg/skaffold/runner/deploy_test.go;           *)
(*   - hack/schemas/main.go (generateSchemas, newDefinition, Apply).        *)
(* Go strings are modelled as sequences of one-character strings, so that  *)
(* suffix tests, trimming, splitting and regular-expression matching are   *)
(* computed the way the Go code computes them.                             *)
(***************************************************************************)
EXTENDS Integers, Sequences, FiniteSets, TLC

VARIABLES
    dest, strip, simplified,          \* one call of simplify
    manifest, config, upgraded,       \* Upgrade / convertSyncRules
    source, strict, generated,        \* one schemaGenerator and its Apply
    versions, disk, dryRun, versionIndex, same, compared, returned   \* generateSchemas

simplifyVars == <<dest, strip, simplified>>
upgradeVars == <<manifest, config, upgraded>>
applyVars == <<source, strict, generated>>
generateVars == <<versions, disk, dryRun, versionIndex, same, compared, returned>>
vars == <<simplifyVars, upgradeVars, applyVars, generateVars>>

\* Go's nil / a value not yet produced is the empty sequence; a present value x is <<x>>
Nil == <<>>
Some(x) == <<x>>

(***************************************************************************)
(* Go's strings package, over sequences of characters.                     *)
(***************************************************************************)
SubStr(s, i, j) == [k \in 1..(j - i + 1) |-> s[i + k - 1]]

HasPrefix(s, p) == Len(p) <= Len(s) /\ SubStr(s, 1, Len(p)) = p

HasSuffix(s, p) == Len(p) <= Len(s) /\ SubStr(s, Len(s) - Len(p) + 1, Len(s)) = p

TrimPrefix(s, p) == IF HasPrefix(s, p) THEN SubStr(s, Len(p) + 1, Len(s)) ELSE s

TrimSuffix(s, p) == IF HasSuffix(s, p) THEN SubStr(s, 1, Len(s) - Len(p)) ELSE s

\* strings.Index: the 1-based position of the first occurrence, 0 when absent
Index(s, p) ==
    LET hits == {i \in 1..(Len(s) - Len(p) + 1) : SubStr(s, i, i + Len(p) - 1) = p}
    IN IF hits = {} THEN 0 ELSE CHOOSE i \in hits : \A j \in hits : i <= j

Contains(s, p) == Index(s, p) # 0

\* strings.Split(s, sep)[0]
SplitFirst(s, sep) == IF Contains(s, sep) THEN SubStr(s, 1, Index(s, sep) - 1) ELSE s

\* strings.Replace(s, old, new, -1): left to right, non-overlapping
RECURSIVE ReplaceAll(_, _, _)
ReplaceAll(s, old, new) ==
    IF ~Contains(s, old) THEN s
    ELSE LET i == Index(s, old)
         IN SubStr(s, 1, i - 1) \o new \o
            ReplaceAll(SubStr(s, i + Len(old), Len(s)), old, new)

\* all strings over alphabet A of length at most n
StringsUpTo(A, n) == UNION {[1..k -> A] : k \in 0..n}

SLASH == <<"/">>
DOT == <<".">>
STAR3 == <<"*", "*", "*">>
STAR2 == <<"*", "*">>

(***************************************************************************)
(* simplify(dest, strip)                                                   *)
(***************************************************************************)
\* the variant that compares against strip with its leading "/" removed
simplifyTrimmedCompare(d, s) ==
    IF s = <<>> \/ s = SLASH \/ d = <<>> THEN <<d, s>>
    ELSE LET padded == IF d[Len(d)] # "/" THEN d \o SLASH ELSE d
         IN IF HasSuffix(padded, TrimPrefix(s, SLASH))
            THEN LET simpleDest == TrimSuffix(padded, TrimPrefix(s, SLASH))
                 IN <<IF simpleDest = <<>> THEN DOT ELSE simpleDest, <<>>>>
            ELSE <<d, s>>

simplify(d, s) ==
    IF s = <<>> \/ s = SLASH \/ d = <<>> THEN <<d, s>>
    ELSE LET padded == IF d[Len(d)] # "/" THEN d \o SLASH ELSE d
         IN IF HasSuffix(padded, s)
            THEN LET simpleDest == TrimSuffix(padded, TrimPrefix(s, SLASH))
                 IN <<IF simpleDest = <<>> THEN DOT ELSE simpleDest, <<>>>>
            ELSE <<d, s>>

MaxPathLen == 3
PathChars == {"a", "b", "/"}
Paths == StringsUpTo(PathChars, MaxPathLen)

UpgradeIdle == manifest = <<>> /\ config = <<>> /\ upgraded = <<>>
SimplifyIdle == dest = <<>> /\ strip = <<>> /\ simplified = <<>>
ApplyIdle == source = <<>> /\ strict = FALSE /\ generated = <<>>
GenerateIdle ==
    /\ versions = <<>> /\ disk = <<>> /\ dryRun = FALSE /\ versionIndex = 0
    /\ same = TRUE /\ compared = {} /\ returned = <<>>

InitSimplify ==
    /\ dest \in Paths
    /\ strip \in Paths
    /\ simplified = Nil
    /\ UpgradeIdle /\ ApplyIdle /\ GenerateIdle

Simplify ==
    /\ simplified = Nil
    /\ simplified' = simplify(dest, strip)
    /\ UNCHANGED <<dest, strip, upgradeVars, applyVars, generateVars>>

NextSimplify == Simplify

SpecSimplify == InitSimplify /\ [][NextSimplify]_vars

(***************************************************************************)
(* C2                                                                      *)
(***************************************************************************)
C2_Applies == simplified # Nil /\ strip # <<>> /\ strip # SLASH /\ dest # <<>>

C2_Padded == IF dest[Len(dest)] # "/" THEN dest \o SLASH ELSE dest

\* C2 as stated: simplify absorbs the strip exactly when the padded dest ends
\* with strip minus its leading "/", returning (padded dest without that
\* suffix, or "." when nothing is left, ""); otherwise (dest, strip) unchanged.
C2_AbsorbsTrimmedStrip ==
    C2_Applies =>
        LET tail == TrimPrefix(strip, SLASH)
            cut == Len(C2_Padded) - Len(tail)
        IN IF cut >= 0 /\ SubStr(C2_Padded, cut + 1, Len(C2_Padded)) = tail
           THEN simplified = <<IF cut = 0 THEN DOT ELSE SubStr(C2_Padded, 1, cut), <<>>>>
           ELSE simplified = <<dest, strip>>

\* C2 amended: simplify absorbs the strip exactly when the padded dest ends
\* with the whole strip, leading "/" included; it then returns the part of the
\* padded dest in front of strip, followed by strip's leading "/" if it has
\* one ("." when that is empty), and an empty strip; in every other case it
\* returns (dest, strip) unchanged, without the padding.
C2_AbsorbsWholeStrip ==
    C2_Applies =>
        LET cut == Len(C2_Padded) - Len(strip)
            lead == IF strip[1] = "/" THEN SLASH ELSE <<>>
        IN IF cut >= 0 /\ SubStr(C2_Padded, cut + 1, Len(C2_Padded)) = strip
           THEN LET kept == SubStr(C2_Padded, 1, cut) \o lead
                IN simplified = <<IF kept = <<>> THEN DOT ELSE kept, <<>>>>
           ELSE simplified = <<dest, strip>>

\* a strip starting with "/" that simplify absorbed
C2_Witness ==
    /\ C2_Applies
    /\ strip[1] = "/"
    /\ simplified[2] = <<>>

(***************************************************************************)
(* compatibleSimplePattern = ^([^*]*/)?([^*/]*\*[^*/]*|[^*/]+)$            *)
(***************************************************************************)
NoneOf(s, chars) == \A i \in 1..Len(s) : s[i] \notin chars

\* ([^*]*/)? : absent, or star-free text ending in "/"
DirGroup(p) == p = <<>> \/ (p[Len(p)] = "/" /\ NoneOf(p, {"*"}))

\* a basename group that lets any number of stars through: ([^/]+)
BaseGroupAnyStars(b) == Len(b) >= 1 /\ NoneOf(b, {"/"})

\* ([^*/]*\*[^*/]*|[^*/]+) : exactly one star, or a non-empty star-free name
BaseGroup(b) ==
    \/ \E i \in 1..Len(b) : b[i] = "*" /\ \A j \in 1..Len(b) : j # i => b[j] \notin {"*", "/"}
    \/ Len(b) >= 1 /\ NoneOf(b, {"*", "/"})

\* the places where group 1 can end so that the whole pattern matches
SimpleSplits(src) ==
    {i \in 0..Len(src) : DirGroup(SubStr(src, 1, i)) /\ BaseGroup(SubStr(src, i + 1, Len(src)))}

\* compatibleSimplePattern.MatchString(src)
MatchString(src) == SimpleSplits(src) # {}

\* FindStringSubmatch(src)[2], the basename group
Submatch2(src) ==
    LET i == CHOOSE i \in SimpleSplits(src) : \A j \in SimpleSplits(src) : j <= i
    IN SubStr(src, i + 1, Len(src))

\* compatibleSimplePattern.FindStringSubmatch(src)[1]: the optional group is greedy
Submatch1(src) ==
    LET i == CHOOSE i \in SimpleSplits(src) : \A j \in SimpleSplits(src) : j <= i
    IN SubStr(src, 1, i)

(***************************************************************************)
(* convertSyncRules                                                        *)
(***************************************************************************)
SyncRule(src, dst, strp) == [Src |-> src, Dest |-> dst, Strip |-> strp]

\* the switch of convertSyncRules: the first case that holds is taken
Classify(src) ==
    IF MatchString(src) THEN "simple"
    ELSE IF Contains(src, STAR3) THEN "triplestar"
    ELSE "incompatible"

\* the rule built for one entry (src, dst) of the legacy sync map
ConvertEntry(src, dst) ==
    CASE Classify(src) = "simple" ->
            LET r == simplify(dst, Submatch1(src)) IN SyncRule(src, r[1], r[2])
      [] Classify(src) = "triplestar" ->
            LET r == simplify(dst, SplitFirst(src, STAR3))
            IN SyncRule(ReplaceAll(src, STAR3, STAR2), r[1], r[2])
      [] OTHER -> SyncRule(src, dst, <<>>)

\* the orders in which `range m` can visit the keys of the map m
IterationOrders(m) ==
    LET n == Cardinality(DOMAIN m)
    IN {o \in [1..n -> DOMAIN m] : \A i, j \in 1..n : i # j => o[i] # o[j]}

\* Go ranges over a nil map as over an empty one
SyncMap(a) == IF a.Sync = Nil THEN <<>> ELSE a.Sync[1]

\* one iteration order for the map of each artifact
ArtifactOrders(artifacts) ==
    {os \in [1..Len(artifacts) -> UNION {IterationOrders(SyncMap(artifacts[i])) : i \in 1..Len(artifacts)}] :
        \A i \in 1..Len(artifacts) : os[i] \in IterationOrders(SyncMap(artifacts[i]))}

RECURSIVE Flatten(_)
Flatten(ss) == IF ss = <<>> THEN <<>> ELSE Head(ss) \o Flatten(Tail(ss))

\* `a.Sync = nil`, a being a pointer to the artifact of the input config
blankSync(a) == [a EXCEPT !.Sync = Nil]

\* convertSyncRules visiting the maps in the orders os: the rules per artifact,
\* the config as the call leaves it, and the patterns of the warning
convertSyncRules(cfg, os) ==
    LET arts == cfg.Artifacts
        rules(i) == [k \in 1..Len(os[i]) |-> ConvertEntry(os[i][k], SyncMap(arts[i])[os[i][k]])]
        bad(i) == SelectSeq(os[i], LAMBDA src : Classify(src) = "incompatible")
    IN [newSync |-> [i \in 1..Len(arts) |-> rules(i)],
        config |-> [cfg EXCEPT !.Artifacts = [i \in 1..Len(arts) |-> blankSync(arts[i])]],
        incompatiblePatterns |-> Flatten([i \in 1..Len(arts) |-> bad(i)])]

(***************************************************************************)
(* Upgrade                                                                 *)
(***************************************************************************)
Failed(msg, warned) == [err |-> msg, config |-> Nil, warning |-> warned]

\* pkgutil.CloneThroughJSON fails on the part of the manifest that the JSON
\* form cannot represent (cfg.Broken); Profiles are cloned only when not nil
Upgraded(cfg, os) ==
    IF cfg.Broken = "deploy" THEN [result |-> Failed("converting deploy config", <<>>), input |-> cfg]
    ELSE IF cfg.Profiles # Nil /\ cfg.Broken = "profiles"
    THEN [result |-> Failed("converting new profile", <<>>), input |-> cfg]
    ELSE LET conv == convertSyncRules(cfg, os)
             after == conv.config
             \* newBuild is cloned from the input as convertSyncRules left it
             newArtifacts ==
                 [i \in 1..Len(after.Artifacts) |->
                     IF Len(conv.newSync[i]) > 0
                     THEN [ImageName |-> after.Artifacts[i].ImageName,
                           Sync |-> Some([Manual |-> conv.newSync[i]])]
                     ELSE [ImageName |-> after.Artifacts[i].ImageName, Sync |-> Nil]]
         IN IF cfg.Broken = "build"
            THEN [result |-> Failed("converting new build", conv.incompatiblePatterns), input |-> after]
            ELSE IF cfg.Broken = "test"
            THEN [result |-> Failed("converting new test", conv.incompatiblePatterns), input |-> after]
            ELSE [result |-> [err |-> "",
                              config |-> Some([APIVersion |-> "skaffold/v1beta10",
                                               Kind |-> after.Kind,
                                               Artifacts |-> newArtifacts,
                                               Test |-> after.Test,
                                               Deploy |-> after.Deploy,
                                               Profiles |-> after.Profiles]),
                              warning |-> conv.incompatiblePatterns],
                  input |-> after]

\* two independent calls of Upgrade, each on its own copy of the same manifest
Runs == {"first", "second"}

Upgrade(r) ==
    /\ upgraded[r] = Nil
    /\ \E os \in ArtifactOrders(config[r].Artifacts) :
          LET u == Upgraded(config[r], os)
          IN /\ upgraded' = [upgraded EXCEPT ![r] = Some(u.result)]
             /\ config' = [config EXCEPT ![r] = u.input]
    /\ UNCHANGED <<manifest, simplifyVars, applyVars, generateVars>>

\* legacy sync entries: the documented scenarios (B, C, D shortened)
SrcJs == <<"s", "r", "c", "/", "*", ".", "j", "s">>
AppDir == <<"a", "p", "p", "/">>
SrcCss == <<"c", "/", "*", ".", "c">>
CssDir == <<"c", "/">>
SrcPage == <<"t", "/", "*", "*", "*", "/", "p">>
ViewsDir == <<"v", "/">>
SrcHtml == <<"a", "/", "*", "/", "*", ".", "h">>
OutDir == <<"o", "/">>

SampleSyncs ==
    {Nil, Some(<<>>), Some(SrcJs :> AppDir),
     Some((SrcJs :> AppDir) @@ (SrcCss :> CssDir)),
     Some((SrcPage :> ViewsDir) @@ (SrcHtml :> OutDir))}

MaxArtifacts == 2
MaxPatternLen == 4
PatternChars == {"a", "/", "*"}
Patterns == StringsUpTo(PatternChars, MaxPatternLen)
PatternDests == {<<"a", "/">>, <<"/", "a">>}

Artifact(sync) == [ImageName |-> "img", Sync |-> sync]

Manifest(arts, profiles, broken) ==
    [Kind |-> "Config", Artifacts |-> arts, Test |-> "test", Deploy |-> "deploy",
     Profiles |-> profiles, Broken |-> broken]

\* manifests with up to MaxArtifacts artifacts over the sample maps, and
\* manifests with one artifact whose map has one entry, over every short pattern
Manifests ==
    {Manifest(arts, p, b) :
        arts \in UNION {[1..n -> {Artifact(m) : m \in SampleSyncs}] : n \in 0..MaxArtifacts},
        p \in {Nil, Some("profiles")},
        b \in {"none", "deploy", "profiles", "build", "test"}}
    \cup
    {Manifest(<<Artifact(Some(src :> dst))>>, Nil, "none") : src \in Patterns, dst \in PatternDests}

InitUpgrade ==
    /\ manifest \in Manifests
    /\ config = [r \in Runs |-> manifest]
    /\ upgraded = [r \in Runs |-> Nil]
    /\ SimplifyIdle /\ ApplyIdle /\ GenerateIdle

NextUpgrade == \E r \in Runs : Upgrade(r)

SpecUpgrade == InitUpgrade /\ [][NextUpgrade]_vars

(***************************************************************************)
(* C1, C3, C4, C10                                                         *)
(***************************************************************************)
Returned(r) == upgraded[r] # Nil
Succeeded(r) == Returned(r) /\ upgraded[r][1].err = ""

\* the sync rules run r emitted for artifact i
EmittedRules(r, i) ==
    LET a == upgraded[r][1].config[1].Artifacts[i]
    IN IF a.Sync = Nil THEN <<>> ELSE a.Sync[1].Manual

Range(f) == {f[x] : x \in DOMAIN f}

\* C1: after Upgrade returns, with a result or an error, the input config
\* (each artifact's legacy sync mapping included) equals the manifest as it
\* was before the call.
C1_InputNeverMutated == \A r \in Runs : Returned(r) => config[r] = manifest

HasEntry(src, dst) ==
    \E i \in 1..Len(manifest.Artifacts) :
        LET m == SyncMap(manifest.Artifacts[i]) IN src \in DOMAIN m /\ m[src] = dst

EntryRules(r, src, dst) ==
    UNION {IF src \in DOMAIN SyncMap(manifest.Artifacts[i]) /\ SyncMap(manifest.Artifacts[i])[src] = dst
           THEN {rule \in Range(EmittedRules(r, i)) : rule.Src = src}
           ELSE {} : i \in 1..Len(manifest.Artifacts)}

\* C3 as stated: the entry "src/*.js" -> "app/" is simple-compatible with
\* prefix "" and is emitted as src "src/*.js", dest "app/", strip "".
C3_ScenarioAEmptyStrip ==
    \A r \in Runs : Succeeded(r) /\ HasEntry(SrcJs, AppDir) =>
        /\ Classify(SrcJs) = "simple"
        /\ Submatch1(SrcJs) = <<>>
        /\ EntryRules(r, SrcJs, AppDir) = {SyncRule(SrcJs, AppDir, <<>>)}

\* C3 amended: the entry "src/*.js" -> "app/" is simple-compatible with
\* prefix "src/" and is emitted as src "src/*.js", dest "app/", strip "src/"
\* (the destination does not end with the prefix, so nothing is simplified).
C3_ScenarioAStripsSrcDir ==
    \A r \in Runs : Succeeded(r) /\ HasEntry(SrcJs, AppDir) =>
        /\ Classify(SrcJs) = "simple"
        /\ Submatch1(SrcJs) = <<"s", "r", "c", "/">>
        /\ EntryRules(r, SrcJs, AppDir) = {SyncRule(SrcJs, AppDir, <<"s", "r", "c", "/">>)}

C3_Witness == \E r \in Runs : Succeeded(r) /\ HasEntry(SrcJs, AppDir)

\* C4: two runs of convertSyncRules over the same manifest emit, for each
\* artifact, the same ordered list of sync rules, whatever order the legacy
\* sync map was iterated in.
C4_StableRuleOrder ==
    (Succeeded("first") /\ Succeeded("second")) =>
        \A i \in 1..Len(manifest.Artifacts) : EmittedRules("first", i) = EmittedRules("second", i)

\* C10: the three classes partition the patterns: no pattern matches
\* compatibleSimplePattern and contains "***"; each entry yields exactly one
\* rule; a pattern in neither class is emitted with src and dest unchanged and
\* an empty strip, a simple one keeps its src, a triple-star one has "***"
\* rewritten to "**".
C10_ClassesPartition ==
    \A r \in Runs : Succeeded(r) =>
        \A i \in 1..Len(manifest.Artifacts) :
            LET m == SyncMap(manifest.Artifacts[i])
                rules == EmittedRules(r, i)
            IN /\ Len(rules) = Cardinality(DOMAIN m)
               /\ \A src \in DOMAIN m :
                    LET simple == MatchString(src)
                        triple == Contains(src, STAR3)
                    IN /\ ~(simple /\ triple)
                       /\ (~simple /\ ~triple) =>
                            /\ SyncRule(src, m[src], <<>>) \in Range(rules)
                            /\ src \in Range(upgraded[r][1].warning)
                       /\ simple =>
                            /\ \E rule \in Range(rules) : rule.Src = src
                            /\ src \notin Range(upgraded[r][1].warning)
                       /\ triple =>
                            /\ \E rule \in Range(rules) : rule.Src = ReplaceAll(src, STAR3, STAR2)
                            /\ src \notin Range(upgraded[r][1].warning)

\* a successful run over a manifest holding a pattern of each class
C10_Witness ==
    \E r \in Runs : Succeeded(r) /\
        \A c \in {"simple", "triplestar", "incompatible"} :
            \E i \in 1..Len(manifest.Artifacts) :
                \E src \in DOMAIN SyncMap(manifest.Artifacts[i]) : Classify(src) = c

(***************************************************************************)
(* hack/schemas/main.go: Definition                                        *)
(* A doc comment is a sequence of words and punctuation; the literals the  *)
(* regular expressions look for ("Defaults to ", "For example: ") are one  *)
(* token each, the backtick that follows them is a token of its own.       *)
(***************************************************************************)
version7 == "http://json-schema-org/draft-07/schema#"
defPrefix == "#/definitions/"

\* a struct tag, as yamlFieldName and the strings.Contains tests read it
NoTags == [yaml |-> "", inline |-> FALSE, required |-> FALSE, oneOf |-> FALSE]

\* the zero Definition; Ref is <<defPrefix, typeName>>, AdditionalProperties is
\* "nil", "false" or "definition" (the definition then being AdditionalDef);
\* panic holds the message of a panic raised while the node was built
EmptyDefinition ==
    [Ref |-> <<>>, Items |-> Nil, Required |-> <<>>, Properties |-> <<>>,
     PreferredOrder |-> <<>>, AdditionalProperties |-> "nil", AdditionalDef |-> Nil,
     Type |-> "", AnyOf |-> <<>>, Description |-> <<>>, Default |-> Nil,
     Examples |-> <<>>, inlines |-> <<>>, tags |-> NoTags, panic |-> ""]

\* a nil *Definition stored in a map
NilDefinition == [EmptyDefinition EXCEPT !.Type = "<nil>"]

INLINE == "<inline>"

setTypeOrRef(def, typeName) ==
    CASE typeName = "string" -> [def EXCEPT !.Type = typeName]
      [] typeName = "bool" -> [def EXCEPT !.Type = "boolean"]
      [] typeName \in {"int", "int64"} -> [def EXCEPT !.Type = "number"]
      [] OTHER -> [def EXCEPT !.Ref = <<defPrefix, typeName>>]

(***************************************************************************)
(* newDefinition: the documentation part                                   *)
(***************************************************************************)
DEFAULTS == "Defaults to "
EXAMPLE == "For example: "
\* the backtick character
TICK == "backtick"
SPACE == " "

\* strings.Replace(comment, "\n", " ", -1)
JoinLines(s) == [i \in 1..Len(s) |-> IF s[i] = "\n" THEN SPACE ELSE s[i]]

RECURSIVE TrimSpace(_)
TrimSpace(s) ==
    IF s # <<>> /\ s[1] = SPACE THEN TrimSpace(Tail(s))
    ELSE IF s # <<>> /\ s[Len(s)] = SPACE THEN TrimSpace(SubStr(s, 1, Len(s) - 1))
    ELSE s

MaxOf(S) == CHOOSE x \in S : \A y \in S : y <= x
MinOf(S) == CHOOSE x \in S : \A y \in S : x <= y

\* where "(.*)<literal>`(.*)`" can place its literal: a backtick right after
\* it and a closing backtick somewhere behind
ClauseStarts(s, literal) ==
    {i \in 1..Len(s) : /\ s[i] = literal
                       /\ i + 1 <= Len(s) /\ s[i + 1] = TICK
                       /\ \E j \in (i + 2)..Len(s) : s[j] = TICK}

\* FindStringSubmatch of "(.*)<literal>`(.*)`": both groups are greedy, so the
\* literal is the last one that can match and the value runs to the last backtick
FindClause(s, literal) ==
    IF ClauseStarts(s, literal) = {} THEN Nil
    ELSE LET i == MaxOf(ClauseStarts(s, literal))
             j == MaxOf({j \in (i + 2)..Len(s) : s[j] = TICK})
         IN Some(<<SubStr(s, 1, i - 1), SubStr(s, i + 2, j - 1)>>)

\* "^"+name+" (\*.*\* )?((is (the )?)|(are (the )?)|(lists ))?" replaced by "$1"
RemoveTypePrefix(name, s) ==
    IF ~HasPrefix(s, <<name, SPACE>>) THEN s
    ELSE LET rest == SubStr(s, 3, Len(s))
             ends == {k \in 2..(Len(rest) - 1) : rest[k] = "*" /\ rest[k + 1] = SPACE}
             emph == IF rest # <<>> /\ rest[1] = "*" /\ ends # {}
                     THEN SubStr(rest, 1, MaxOf(ends) + 1) ELSE <<>>
             r1 == SubStr(rest, Len(emph) + 1, Len(rest))
             r2 == CASE HasPrefix(r1, <<"is", SPACE>>) ->
                            TrimPrefix(SubStr(r1, 3, Len(r1)), <<"the", SPACE>>)
                      [] HasPrefix(r1, <<"are", SPACE>>) ->
                            TrimPrefix(SubStr(r1, 3, Len(r1)), <<"the", SPACE>>)
                      [] HasPrefix(r1, <<"lists", SPACE>>) -> SubStr(r1, 3, Len(r1))
                      [] OTHER -> r1
         IN emph \o r2

\* lines 223-254 of newDefinition, applied to the node def built from the type
Describe(isStrict, name, comment, def) ==
    IF isStrict /\ name # "" /\ ~HasPrefix(comment, <<name, SPACE>>)
    THEN [def EXCEPT !.panic = "comment should start with field name"]
    ELSE LET d0 == TrimSpace(JoinLines(comment))
             mD == FindClause(d0, DEFAULTS)
             d1 == IF mD # Nil THEN TrimSpace(mD[1][1]) ELSE d0
             def1 == IF mD # Nil THEN [def EXCEPT !.Default = Some(mD[1][2])] ELSE def
             mE == FindClause(d1, EXAMPLE)
             d2 == IF mE # Nil THEN TrimSpace(mE[1][1]) ELSE d1
             def2 == IF mE # Nil THEN [def1 EXCEPT !.Examples = <<mE[1][2]>>] ELSE def1
             description == RemoveTypePrefix(name, d2)
         IN IF isStrict /\ name # "" /\ description = <<>>
            THEN [def2 EXCEPT !.panic = "no description"]
            ELSE IF isStrict /\ name # "" /\ ~HasSuffix(description, <<".">>)
            THEN [def2 EXCEPT !.panic = "description should end with a dot"]
            ELSE [def2 EXCEPT !.Description = description]

(***************************************************************************)
(* newDefinition: the type switch                                          *)
(* A type expression is [kind |-> "ident", name], [kind |-> "star", x],    *)
(* [kind |-> "array", elt], [kind |-> "map", value], [kind |-> "selector"] *)
(* or [kind |-> "struct", fields]; a field is [Name, Type, Doc, Tag].      *)
(***************************************************************************)
yamlFieldName(field) == field.Tag.yaml

RECURSIVE newDefinition(_, _, _, _, _)
RECURSIVE StructFields(_, _, _)

\* the loop over tt.Fields.List
StructFields(isStrict, def, fields) ==
    IF fields = <<>> \/ def.panic # "" THEN def
    ELSE LET field == Head(fields)
             yamlName == yamlFieldName(field)
             next ==
                 IF field.Tag.inline
                 THEN IF field.Type.kind # "ident"
                      THEN [def EXCEPT !.panic = "interface conversion"]
                      ELSE [def EXCEPT !.PreferredOrder = Append(@, INLINE),
                                       !.inlines = Append(@, [Ref |-> <<defPrefix, field.Type.name>>])]
                 ELSE IF yamlName = "" \/ yamlName = "-" THEN def
                 ELSE LET child == newDefinition(isStrict, field.Name, field.Type, field.Doc, field.Tag)
                      IN [def EXCEPT !.Required = IF field.Tag.required THEN Append(@, yamlName) ELSE @,
                                     !.PreferredOrder = Append(@, yamlName),
                                     !.Properties = (yamlName :> child) @@ @,
                                     !.AdditionalProperties = "false",
                                     !.panic = child.panic]
         IN StructFields(isStrict, next, Tail(fields))

newDefinition(isStrict, name, t, comment, tags) ==
    LET def == [EmptyDefinition EXCEPT !.tags = tags]
        typed ==
            CASE t.kind = "ident" ->
                    IF t.name = "bool"
                    THEN [setTypeOrRef(def, t.name) EXCEPT !.Default = Some(<<"false">>)]
                    ELSE setTypeOrRef(def, t.name)
              [] t.kind = "star" ->
                    IF t.x.kind = "ident" THEN setTypeOrRef(def, t.x.name)
                    ELSE IF t.x.kind = "selector" THEN [def EXCEPT !.Type = "object"]
                    ELSE def
              [] t.kind = "array" ->
                    LET items == newDefinition(isStrict, "", t.elt, <<>>, NoTags)
                    IN [def EXCEPT !.Type = "array", !.Items = Some(items),
                                   !.Default = IF items.Ref = <<>> THEN Some(<<"[]">>) ELSE @,
                                   !.panic = items.panic]
              [] t.kind = "map" ->
                    LET value == newDefinition(isStrict, "", t.value, <<>>, NoTags)
                    IN [def EXCEPT !.Type = "object", !.Default = Some(<<"{}">>),
                                   !.AdditionalProperties = "definition",
                                   !.AdditionalDef = Some(value), !.panic = value.panic]
              [] t.kind = "struct" -> StructFields(isStrict, def, t.fields)
              [] OTHER -> def
    IN IF typed.panic # "" THEN typed ELSE Describe(isStrict, name, comment, typed)

(***************************************************************************)
(* schemaGenerator.Apply                                                   *)
(***************************************************************************)
\* definitions[ref], a nil pointer when the map has no such key
Lookup(definitions, ref) ==
    IF ref \in DOMAIN definitions THEN definitions[ref] ELSE NilDefinition

\* strings.TrimPrefix(inlineStruct.Ref, defPrefix)
RefName(d) == TrimPrefix(d.Ref, <<defPrefix>>)[1]

\* isOneOf dereferences a nil pointer: no such definition, or no property
\* under the first name of the preferred order
isOneOfPanics(definition) ==
    \/ definition = NilDefinition
    \/ /\ DOMAIN definition.Properties # {}
       /\ \/ definition.PreferredOrder = <<>>
          \/ definition.PreferredOrder[1] \notin DOMAIN definition.Properties
          \/ definition.Properties[definition.PreferredOrder[1]] = NilDefinition

isOneOf(definition) ==
    /\ DOMAIN definition.Properties # {}
    /\ definition.Properties[definition.PreferredOrder[1]].tags.oneOf

\* m[key] of a map of *Definition
PropertyOrNil(m, key) == IF key \in DOMAIN m THEN m[key] ELSE NilDefinition

\* "First, inline definitions without `oneOf`": ks is what is left of
\* def.PreferredOrder, acc the definition with the order rebuilt so far
RECURSIVE InlinePlain(_, _, _, _)
InlinePlain(definitions, ks, inlineIndex, acc) ==
    IF ks = <<>> \/ acc.panic # "" THEN acc
    ELSE IF Head(ks) # INLINE
    THEN InlinePlain(definitions, Tail(ks), inlineIndex,
                     [acc EXCEPT !.PreferredOrder = Append(@, Head(ks))])
    ELSE IF inlineIndex > Len(acc.inlines)
    THEN [acc EXCEPT !.panic = "index out of range"]
    ELSE LET inlineStructRef == Lookup(definitions, RefName(acc.inlines[inlineIndex]))
         IN IF isOneOfPanics(inlineStructRef)
            THEN [acc EXCEPT !.panic = "nil pointer dereference"]
            ELSE IF isOneOf(inlineStructRef)
            THEN InlinePlain(definitions, Tail(ks), inlineIndex + 1, acc)
            ELSE InlinePlain(definitions, Tail(ks), inlineIndex + 1,
                     [acc EXCEPT !.Properties = inlineStructRef.Properties @@ @,
                                 !.PreferredOrder = @ \o inlineStructRef.PreferredOrder,
                                 !.Required = @ \o inlineStructRef.Required])

\* the options one oneOf inline source adds: one per name of its preferred order
Choices(def, inlineStructRef) ==
    [j \in 1..Len(inlineStructRef.PreferredOrder) |->
        LET key == inlineStructRef.PreferredOrder[j]
            own == IF DOMAIN def.Properties # {} THEN def.PreferredOrder ELSE <<>>
            choice == (key :> PropertyOrNil(inlineStructRef.Properties, key)) @@
                      [pkey \in {own[i] : i \in 1..Len(own)} |-> PropertyOrNil(def.Properties, pkey)]
        IN [EmptyDefinition EXCEPT !.Properties = choice,
                                   !.PreferredOrder = Append(own, key),
                                   !.AdditionalProperties = "false"]]

\* "Then add options for `oneOf` definitions"
Options(definitions, def) ==
    Flatten([i \in 1..Len(def.inlines) |->
        LET inlineStructRef == Lookup(definitions, RefName(def.inlines[i]))
        IN IF ~isOneOfPanics(inlineStructRef) /\ isOneOf(inlineStructRef)
           THEN Choices(def, inlineStructRef) ELSE <<>>])

\* the base alternative put after the options instead of in front
WithBaseLast(base, options) == options \o <<base>>

\* append([]*Definition{base}, options...)
WithBase(base, options) == <<base>> \o options

\* one round of the loop over preferredOrder, for the type named k
ResolveInlines(definitions, k) ==
    LET def == definitions[k]
        merged == InlinePlain(definitions, def.PreferredOrder, 1, [def EXCEPT !.PreferredOrder = <<>>])
        options == Options(definitions, merged)
        base == [EmptyDefinition EXCEPT !.Properties = merged.Properties,
                                        !.PreferredOrder = merged.PreferredOrder,
                                        !.AdditionalProperties = "false"]
    IN IF def.inlines = <<>> THEN definitions
       ELSE IF merged.panic # "" \/ options = <<>> THEN [definitions EXCEPT ![k] = merged]
       ELSE [definitions EXCEPT ![k] = [merged EXCEPT !.Properties = <<>>,
                                                      !.PreferredOrder = <<>>,
                                                      !.AdditionalProperties = "nil",
                                                      !.AdditionalDef = Nil,
                                                      !.AnyOf = WithBase(base, options)]]

RECURSIVE ResolveAll(_, _)
ResolveAll(definitions, ks) ==
    IF ks = <<>> THEN definitions
    ELSE LET next == ResolveInlines(definitions, Head(ks))
         IN IF next[Head(ks)].panic # "" THEN next ELSE ResolveAll(next, Tail(ks))

Panics(definitions) == {k \in DOMAIN definitions : definitions[k].panic # ""}

\* the message of the panic that ends the run
PanicOf(definitions) == definitions[CHOOSE k \in Panics(definitions) : TRUE].panic

\* the names appended to `inlines`: the inline sources of every type, in order
InlineNames(definitions, preferredOrder) ==
    Flatten([i \in 1..Len(preferredOrder) |->
        [j \in 1..Len(definitions[preferredOrder[i]].inlines) |->
            RefName(definitions[preferredOrder[i]].inlines[j])]])

\* the first loop of Apply: definitions[name] for every type declaration
\* (a later declaration of a name replaces an earlier one)
BuildDefinitions(isStrict, decls) ==
    [name \in {decls[i].Name : i \in 1..Len(decls)} |->
        LET last == MaxOf({i \in 1..Len(decls) : decls[i].Name = name})
        IN newDefinition(isStrict, name, decls[last].Type, decls[last].Doc, NoTags)]

\* delete(definitions, ref) for every inline source
DeleteInlines(definitions, inlines) ==
    [name \in DOMAIN definitions \ {inlines[i] : i \in 1..Len(inlines)} |-> definitions[name]]

Panicked(msg) == [err |-> "", panic |-> msg, schema |-> Nil]

\* the end of Apply, from the definitions as built and as the loop left them
EmitSchema(preferredOrder, built, resolved) ==
    IF Panics(built) # {} THEN Panicked(PanicOf(built))
    ELSE IF Panics(resolved) # {} THEN Panicked(PanicOf(resolved))
    ELSE IF preferredOrder = <<>> THEN Panicked("index out of range")
    ELSE [err |-> "", panic |-> "",
          schema |-> Some([Version |-> version7,
                           Definition |-> [EmptyDefinition EXCEPT
                               !.Type = "object",
                               !.AnyOf = <<[EmptyDefinition EXCEPT
                                              !.Ref = <<defPrefix, preferredOrder[1]>>]>>],
                           Definitions |-> DeleteInlines(resolved, InlineNames(resolved, preferredOrder))])]

ResolveAndEmit(preferredOrder, built) ==
    EmitSchema(preferredOrder, built, ResolveAll(built, preferredOrder))

\* a file is [parses, decls], decls being its type declarations in order,
\* each [Name, Type, Doc]; the result is an error, a panic or the Schema
Apply(isStrict, file) ==
    IF ~file.parses THEN [err |-> "parse error", panic |-> "", schema |-> Nil]
    ELSE ResolveAndEmit([i \in 1..Len(file.decls) |-> file.decls[i].Name],
                        BuildDefinitions(isStrict, file.decls))

(***************************************************************************)
(* The type graphs Apply is run on: up to MaxTypes struct types, each of   *)
(* one of the shapes below; "next" and "prev" name the type declared after *)
(* and before the owner (cyclically), so that a type can use one declared  *)
(* later as well as one declared earlier.                                  *)
(***************************************************************************)
MaxTypes == 3
MaxAlternatives == 2

TypeNames == <<"A", "B", "C", "D", "E">>
GoNames == <<<<"A1", "A2", "A3", "A4">>, <<"B1", "B2", "B3", "B4">>, <<"C1", "C2", "C3", "C4">>,
             <<"D1", "D2", "D3", "D4">>, <<"E1", "E2", "E3", "E4">>>>
YamlNames == <<<<"a1", "a2", "a3", "a4">>, <<"b1", "b2", "b3", "b4">>, <<"c1", "c2", "c3", "c4">>,
               <<"d1", "d2", "d3", "d4">>, <<"e1", "e2", "e3", "e4">>>>

Ident(name) == [kind |-> "ident", name |-> name]
Star(x) == [kind |-> "star", x |-> x]

NextType(i, n) == TypeNames[(i % n) + 1]
PrevType(i, n) == TypeNames[((i + n - 2) % n) + 1]

\* a doc comment that meets the strict rules: "<Name> x."
GoodDoc(name) == <<name, SPACE, "x", ".">>

\* field j of type i (of n), of the given kind
FieldOf(kind, i, j, n) ==
    LET yaml == [NoTags EXCEPT !.yaml = YamlNames[i][j]]
        field(type, tag) == [Name |-> GoNames[i][j], Type |-> type,
                             Doc |-> GoodDoc(GoNames[i][j]), Tag |-> tag]
    IN CASE kind = "string" -> field(Ident("string"), yaml)
         [] kind = "required" -> field(Ident("string"), [yaml EXCEPT !.required = TRUE])
         [] kind = "bool" -> field(Ident("bool"), yaml)
         [] kind = "hidden" -> field(Ident("int"), [NoTags EXCEPT !.yaml = "-"])
         [] kind = "oneOf" -> field(Star(Ident("string")), [yaml EXCEPT !.oneOf = TRUE])
         [] kind = "refNext" -> field(Star(Ident(NextType(i, n))), yaml)
         [] kind = "refPrev" -> field(Ident(PrevType(i, n)), yaml)
         [] kind = "array" -> field([kind |-> "array", elt |-> Ident(NextType(i, n))], yaml)
         [] kind = "map" -> field([kind |-> "map", value |-> Ident("string")], yaml)
         [] kind = "inlineNext" -> field(Ident(NextType(i, n)), [NoTags EXCEPT !.inline = TRUE])
         [] kind = "inlinePrev" -> field(Ident(PrevType(i, n)), [NoTags EXCEPT !.inline = TRUE])

StructShapes ==
    {<<"string">>, <<"string", "required">>, <<"hidden", "bool">>, <<"array", "map">>,
     <<"string", "refNext">>, <<"refPrev">>,
     <<"inlineNext">>, <<"string", "inlineNext">>, <<"inlineNext", "string">>,
     <<"string", "inlineNext", "inlinePrev">>}
    \cup {[j \in 1..k |-> "oneOf"] : k \in 1..MaxAlternatives}

\* a struct embeds other types only, and no type twice
ShapeFits(shape, n) ==
    LET kinds == {shape[j] : j \in 1..Len(shape)}
    IN /\ ("inlineNext" \in kinds \/ "inlinePrev" \in kinds) => n >= 2
       /\ ("inlineNext" \in kinds /\ "inlinePrev" \in kinds) => n >= 3

TypeSpec(shape, i, n) ==
    [Name |-> TypeNames[i],
     Type |-> [kind |-> "struct", fields |-> [j \in 1..Len(shape) |-> FieldOf(shape[j], i, j, n)]],
     Doc |-> GoodDoc(TypeNames[i])]

SourceFile(shapes) ==
    [parses |-> TRUE,
     decls |-> [i \in 1..Len(shapes) |-> TypeSpec(shapes[i], i, Len(shapes))]]

UnparsableFile == [parses |-> FALSE, decls |-> <<>>]

SourceFiles ==
    {UnparsableFile} \cup
    {SourceFile(shapes) :
        shapes \in UNION {{ss \in [1..n -> StructShapes] : \A i \in 1..n : ShapeFits(ss[i], n)} :
                          n \in 0..MaxTypes}}

\* doc comments of up to MaxDocLen tokens, and the documented scenario texts:
\* "Tag Defaults to `latest`. For example: `v1.2.3`." and the same clauses in
\* the other order
MaxDocLen == 3
DocTokens == {"Tag", SPACE, DEFAULTS, EXAMPLE, TICK, ".", "is", "x"}
TagDefaultThenExample ==
    <<"Tag", SPACE, DEFAULTS, TICK, "latest", TICK, ".", SPACE, EXAMPLE, TICK, "v1.2.3", TICK, ".">>
TagExampleThenDefault ==
    <<"Tag", SPACE, "x", ".", SPACE, EXAMPLE, TICK, "v1.2.3", TICK, ".", SPACE, DEFAULTS, TICK, "latest", TICK, ".">>
FieldDocs == StringsUpTo(DocTokens, MaxDocLen) \cup {TagDefaultThenExample, TagExampleThenDefault}

\* type A struct { Tag string `yaml:"tag"` } with the doc comment doc on Tag
TagFile(doc) ==
    [parses |-> TRUE,
     decls |-> <<[Name |-> "A", Doc |-> GoodDoc("A"),
                  Type |-> [kind |-> "struct",
                            fields |-> <<[Name |-> "Tag", Type |-> Ident("string"), Doc |-> doc,
                                          Tag |-> [NoTags EXCEPT !.yaml = "tag"]]>>]]>>]

TagFiles == {TagFile(doc) : doc \in FieldDocs}

InitApply ==
    /\ \/ source \in SourceFiles /\ strict = FALSE
       \/ source \in TagFiles /\ strict \in BOOLEAN
    /\ generated = Nil
    /\ SimplifyIdle /\ UpgradeIdle /\ GenerateIdle

ApplyFile ==
    /\ generated = Nil
    /\ generated' = Some(Apply(strict, source))
    /\ UNCHANGED <<source, strict, simplifyVars, upgradeVars, generateVars>>

NextApply == ApplyFile

SpecApply == InitApply /\ [][NextApply]_vars

(***************************************************************************)
(* C5, C6, C7                                                              *)
(***************************************************************************)
Emitted == generated # Nil /\ generated[1].schema # Nil

EmittedSchema == generated[1].schema[1]

\* every node below d that the encoder writes (a nil property is a null)
RECURSIVE NodesOf(_)
NodesOf(d) ==
    IF d = NilDefinition THEN {}
    ELSE {d}
         \cup UNION {NodesOf(d.Properties[k]) : k \in DOMAIN d.Properties}
         \cup UNION {NodesOf(d.AnyOf[i]) : i \in 1..Len(d.AnyOf)}
         \cup (IF d.Items = Nil THEN {} ELSE NodesOf(d.Items[1]))
         \cup (IF d.AdditionalDef = Nil THEN {} ELSE NodesOf(d.AdditionalDef[1]))

DocumentNodes ==
    NodesOf(EmittedSchema.Definition)
    \cup UNION {NodesOf(EmittedSchema.Definitions[k]) : k \in DOMAIN EmittedSchema.Definitions}

\* C5: every $ref of the emitted document (root, properties, items,
\* additionalProperties, anyOf alternatives) names a key of definitions, so a
\* type that some remaining $ref names has not been removed.
C5_EveryRefResolves ==
    Emitted => \A d \in DocumentNodes : d.Ref # <<>> => d.Ref[2] \in DOMAIN EmittedSchema.Definitions

IsPermutationOf(order, keys) ==
    /\ {order[i] : i \in 1..Len(order)} = keys
    /\ Len(order) = Cardinality(keys)

\* C6: every node with properties has additionalProperties = false and a
\* preferredOrder that lists each property key exactly once and nothing else.
C6_ClosedOrderedObjects ==
    Emitted => \A d \in DocumentNodes :
        DOMAIN d.Properties # {} =>
            /\ d.AdditionalProperties = "false"
            /\ IsPermutationOf(d.PreferredOrder, DOMAIN d.Properties)

\* the declaration of the type named name
DeclOf(name) == source.decls[CHOOSE i \in 1..Len(source.decls) : source.decls[i].Name = name]

Declared == {source.decls[i].Name : i \in 1..Len(source.decls)}

FieldsOf(name) == DeclOf(name).Type.fields

IsInlineField(f) == f.Tag.inline
IsProperty(f) == ~f.Tag.inline /\ f.Tag.yaml \notin {"", "-"}

InlineFields(name) == SelectSeq(FieldsOf(name), IsInlineField)

\* the yaml names a struct declares itself, in declaration order
DeclaredKeys(name) ==
    LET fs == SelectSeq(FieldsOf(name), IsProperty) IN [j \in 1..Len(fs) |-> fs[j].Tag.yaml]

\* a struct that embeds nothing and tags none of its fields oneOf
IsPlainSource(name) ==
    /\ name \in Declared
    /\ \A j \in 1..Len(FieldsOf(name)) : ~FieldsOf(name)[j].Tag.inline /\ ~FieldsOf(name)[j].Tag.oneOf

\* a struct that embeds nothing and whose fields are all oneOf alternatives
IsGroupedSource(name) ==
    /\ name \in Declared
    /\ DeclaredKeys(name) # <<>>
    /\ \A j \in 1..Len(FieldsOf(name)) : IsProperty(FieldsOf(name)[j]) /\ FieldsOf(name)[j].Tag.oneOf

\* e embeds exactly a plain source (p) and a oneOf-grouped source (g)
HasPlainAndGrouped(e, p, g) ==
    /\ e \in Declared
    /\ {InlineFields(e)[j].Type.name : j \in 1..Len(InlineFields(e))} = {p, g}
    /\ Len(InlineFields(e)) = 2 /\ p # g
    /\ IsPlainSource(p) /\ IsGroupedSource(g)

\* e's own keys with p's keys where p is embedded, g's place left out
RECURSIVE BaseOrder(_, _, _)
BaseOrder(fs, p, g) ==
    IF fs = <<>> THEN <<>>
    ELSE LET f == Head(fs)
         IN (IF f.Tag.inline THEN (IF f.Type.name = p THEN DeclaredKeys(p) ELSE <<>>)
             ELSE IF IsProperty(f) THEN <<f.Tag.yaml>> ELSE <<>>)
            \o BaseOrder(Tail(fs), p, g)

\* C7: a type embedding one plain inline source and one oneOf-grouped source
\* with k alternatives becomes a oneOf node: anyOf = base, variant-1 ..
\* variant-k; the base holds the type's own properties merged with the plain
\* source's; variant j holds the base's properties plus the j-th key of the
\* grouped source's preferredOrder; every alternative has additionalProperties
\* = false; the node's own properties, preferredOrder and additionalProperties
\* are cleared.
C7_OneOfComposition ==
    Emitted => \A e, p, g \in DOMAIN EmittedSchema.Definitions \cup Declared :
        (e \in DOMAIN EmittedSchema.Definitions /\ HasPlainAndGrouped(e, p, g)) =>
            LET d == EmittedSchema.Definitions[e]
                base == BaseOrder(FieldsOf(e), p, g)
                baseKeys == {base[j] : j \in 1..Len(base)}
                alts == DeclaredKeys(g)
            IN /\ Len(d.AnyOf) = Len(alts) + 1
               /\ d.AnyOf[1].PreferredOrder = base
               /\ DOMAIN d.AnyOf[1].Properties = baseKeys
               /\ \A j \in 1..Len(alts) :
                    /\ alts[j] \notin baseKeys
                    /\ d.AnyOf[j + 1].PreferredOrder = Append(base, alts[j])
                    /\ DOMAIN d.AnyOf[j + 1].Properties = baseKeys \cup {alts[j]}
                    /\ \A key \in baseKeys : d.AnyOf[j + 1].Properties[key] = d.AnyOf[1].Properties[key]
               /\ \A j \in 1..Len(d.AnyOf) : d.AnyOf[j].AdditionalProperties = "false"
               /\ DOMAIN d.Properties = {} /\ d.PreferredOrder = <<>>
               /\ d.AdditionalProperties = "nil"

\* the stated case: own properties, a plain source with properties, and a
\* grouped source with two alternatives
C7_Witness ==
    Emitted /\ \E e \in DOMAIN EmittedSchema.Definitions : \E p, g \in Declared :
        /\ HasPlainAndGrouped(e, p, g)
        /\ Len(DeclaredKeys(g)) = 2
        /\ DeclaredKeys(e) # <<>> /\ DeclaredKeys(p) # <<>>
        /\ Len(EmittedSchema.Definitions[e].AnyOf) = 3

\* the doc comment of the field Tag, when the source is one of TagFiles
TagDoc == source.decls[1].Type.fields[1].Doc

TagDefinition == EmittedSchema.Definitions["A"].Properties["tag"]

NoTick(s) == \A i \in 1..Len(s) : s[i] # TICK

\* the ways to read doc as: text, "Defaults to `X`", text, "For example: `Y`", text
DefaultThenExample(doc) ==
    {<<SubStr(doc, a + 2, b - 1), SubStr(doc, c + 2, e - 1)>> :
        <<a, b, c, e>> \in {q \in (1..Len(doc)) \X (1..Len(doc)) \X (1..Len(doc)) \X (1..Len(doc)) :
            /\ q[1] + 1 < q[2] /\ q[2] < q[3] /\ q[3] + 1 < q[4]
            /\ doc[q[1]] = DEFAULTS /\ doc[q[1] + 1] = TICK /\ doc[q[2]] = TICK
            /\ doc[q[3]] = EXAMPLE /\ doc[q[3] + 1] = TICK /\ doc[q[4]] = TICK
            /\ NoTick(SubStr(doc, q[1] + 2, q[2] - 1))
            /\ NoTick(SubStr(doc, q[3] + 2, q[4] - 1))}}

\* C9: a doc text with a "Defaults to `X`" clause and a following
\* "For example: `Y`" clause yields default = X and examples = [Y]; for
\* "Tag Defaults to `latest`. For example: `v1.2.3`." that is default "latest",
\* examples ["v1.2.3"] and the description "Tag", the text before "Defaults to".
C9_DefaultAndExample ==
    (Emitted /\ source \in TagFiles) =>
        /\ \A xy \in DefaultThenExample(TagDoc) :
              TagDefinition.Default = Some(xy[1]) /\ TagDefinition.Examples = <<xy[2]>>
        /\ TagDoc = TagDefaultThenExample =>
              /\ TagDefinition.Default = Some(<<"latest">>)
              /\ TagDefinition.Examples = <<<<"v1.2.3">>>>
              /\ TagDefinition.Description = <<"Tag">>

(***************************************************************************)
(* generateSchemas                                                         *)
(* versions[i] is the config.go of schema.SchemaVersions[i]; disk[i] is    *)
(* the state of its committed schema file: "absent", "current" (the bytes  *)
(* Apply would produce now), "stale" (other bytes), "unreadable" (ReadFile *)
(* fails) or "denied" (Stat fails with something other than not-exist).    *)
(***************************************************************************)
GenerateFailed(msg) == [same |-> FALSE, err |-> msg, panic |-> ""]

\* one round of the loop over schema.SchemaVersions, result being what
\* generator.Apply(input) returned
GenerateWith(result) ==
    IF result.panic # ""
    THEN /\ returned' = Some([same |-> FALSE, err |-> "", panic |-> result.panic])
         /\ UNCHANGED <<versionIndex, same, disk, compared>>
    ELSE IF result.err # ""
    THEN /\ returned' = Some(GenerateFailed("unable to generate schema"))
         /\ UNCHANGED <<versionIndex, same, disk, compared>>
    ELSE IF disk[versionIndex] = "unreadable"
    THEN /\ returned' = Some(GenerateFailed("unable to read existing schema"))
         /\ UNCHANGED <<versionIndex, same, disk, compared>>
    ELSE IF disk[versionIndex] = "denied"
    THEN /\ returned' = Some(GenerateFailed("unable to check that file exists"))
         /\ UNCHANGED <<versionIndex, same, disk, compared>>
    ELSE /\ same' = (same /\ disk[versionIndex] = "current")
         /\ disk' = IF dryRun THEN disk ELSE [disk EXCEPT ![versionIndex] = "current"]
         /\ compared' = compared \cup {versionIndex}
         /\ versionIndex' = versionIndex + 1
         /\ UNCHANGED returned

GenerateVersion ==
    /\ returned = Nil
    /\ versionIndex <= Len(versions)
    /\ GenerateWith(Apply(versionIndex = Len(versions), versions[versionIndex]))
    /\ UNCHANGED <<versions, dryRun, simplifyVars, upgradeVars, applyVars>>

\* return same, nil
ReturnSame ==
    /\ returned = Nil
    /\ versionIndex > Len(versions)
    /\ returned' = Some([same |-> same, err |-> "", panic |-> ""])
    /\ UNCHANGED <<versions, disk, dryRun, versionIndex, same, compared, simplifyVars, upgradeVars, applyVars>>

MaxVersions == 3

\* a config.go whose field has no doc comment: fine for a frozen version,
\* a panic for the strict one
UndocumentedFile == TagFile(<<>>)

VersionFiles == {UnparsableFile, TagFile(GoodDoc("Tag")), UndocumentedFile}

InitGenerate ==
    /\ \E n \in 1..MaxVersions :
          /\ versions \in [1..n -> VersionFiles]
          /\ disk \in [1..n -> {"absent", "current", "stale", "unreadable", "denied"}]
    /\ dryRun \in BOOLEAN
    /\ versionIndex = 1
    /\ same = TRUE
    /\ compared = {}
    /\ returned = Nil
    /\ SimplifyIdle /\ UpgradeIdle /\ ApplyIdle

NextGenerate == GenerateVersion \/ ReturnSame

SpecGenerate == InitGenerate /\ [][NextGenerate]_vars

(***************************************************************************)
(* C8                                                                      *)
(***************************************************************************)
\* version v can be generated and compared on its own
Generable(v) ==
    /\ versions[v].parses
    /\ Apply(v = Len(versions), versions[v]).panic = ""
    /\ disk[v] \notin {"unreadable", "denied"}

\* C8: when Apply fails for one version (its type graph cannot be read), the
\* other versions, those after it included, are still generated and compared
\* (and written, unless dryRun) by the time generateSchemas returns.
C8_FailureIsolated ==
    (returned # Nil /\ returned[1].err = "unable to generate schema") =>
        \A v \in 1..Len(versions) : Generable(v) => v \in compared

====
